---- MODULE Spec2Model ----
(***************************************************************************)
(* Model of serienbrief_pdf.py: the placeholder expander                   *)
(* (expand_filename_template), the batch loop of main() that writes one    *)
(* archive entry per CSV row, and generate_doc with its fixed-name         *)
(* temporary file.                                                         *)
(*                                                                         *)
(* A Python str is a sequence of one-character strings.  A dict is the     *)
(* sequence of its items in insertion order (the order .items() yields).   *)
(* A cell value is a record: [na |-> FALSE, s |-> text] for a str and      *)
(* [na |-> TRUE, s |-> <<>>] for the float NaN pandas stores for an empty  *)
(* field.                                                                  *)
(***************************************************************************)
EXTENDS Naturals, Integers, Sequences, FiniteSets, TLC

VARIABLES
    \* ---- main(): one run of the script after a click on the button ----
    pc,                 \* "idle" | "loop" | "done" | "failed"
    uploaded_template,  \* [present, bytes]: the file_uploader's value
    csv_file,           \* [present, wellformed, header, rows]
    filename_template,  \* the text_input's value
    data,               \* the DataFrame: a sequence of row dicts
    index,              \* iterrows' position (the RangeIndex label)
    zip_created,        \* zip_buffer / zf exist
    zf,                 \* the archive: a sequence of [name, bytes]
    ui,                 \* what st.warning / st.error / st.success showed
    download,           \* [offered, data]: st.download_button
    parsed,             \* pd.read_csv was called
    renders,            \* number of generate_doc calls made
    raisedAt,           \* row whose generate_doc raised, -1 if none
    escaped,            \* an exception left main()
    main_temp,          \* content of temp_template.docx as main() leaves it
    \* ---- expand_filename_template applied to drawn inputs ----
    epc,                \* "init" | "once" | "twice"
    template_str,
    context,
    result,             \* expand(template_str, context)
    result2,            \* expand(result, context)
    \* ---- concurrent invocations of generate_doc ----
    gpc,                \* per invocation: "idle"|"open"|"write"|"load"|"save"|"raised"
    template_bytes,     \* per invocation: the argument
    temp_template,      \* content of the shared file temp_template.docx
    doc,                \* per invocation: the template DocxTemplate loaded
    alone,              \* per invocation: no other invocation ran since it began
    returned            \* per invocation: last returned bytes

mainVars == <<pc, uploaded_template, csv_file, filename_template, data, index,
              zip_created, zf, ui, download, parsed, renders, raisedAt,
              escaped, main_temp>>
expandVars == <<epc, template_str, context, result, result2>>
genVars == <<gpc, template_bytes, temp_template, doc, alone, returned>>
vars == <<mainVars, expandVars, genVars>>

\* ------------------------------------------------------------------ bounds
MaxRows == 2
MaxPieces == 4

\* ------------------------------------------------------------- Python str
Val(s) == [na |-> FALSE, s |-> s]
NaN == [na |-> TRUE, s |-> <<>>]

\* str(value): a str is itself, the float NaN prints as "nan".
Str(value) == IF value.na THEN <<"n", "a", "n">> ELSE value.s

\* f"{{{key}}}"
Placeholder(key) == <<"{">> \o key \o <<"}">>

\* placeholder in result
Contains(s, p) ==
    \E i \in 1..(Len(s) + 1 - Len(p)) : SubSeq(s, i, i + Len(p) - 1) = p

\* str.replace(old, new) for a non-empty old: leftmost occurrences, not
\* overlapping, the inserted text is not scanned again.
RECURSIVE Replace(_, _, _)
Replace(s, old, new) ==
    IF Len(s) < Len(old) THEN s
    ELSE IF SubSeq(s, 1, Len(old)) = old
         THEN new \o Replace(SubSeq(s, Len(old) + 1, Len(s)), old, new)
         ELSE <<Head(s)>> \o Replace(Tail(s), old, new)

\* The loop of expand_filename_template over context.items(), from a result.
RECURSIVE ExpandLoop(_, _)
ExpandLoop(res, items) ==
    IF items = <<>> THEN res
    ELSE LET placeholder == Placeholder(items[1].key)
             next == IF Contains(res, placeholder)
                     THEN Replace(res, placeholder, Str(items[1].value))
                     ELSE res
         IN ExpandLoop(next, Tail(items))

\* Mutant: what the docstring announces, a {name} token with no key in the
\* context is replaced by ''.
RECURSIVE DropTokens(_)
DropTokens(s) ==
    IF s = <<>> THEN s
    ELSE IF Head(s) = "{" /\ \E j \in 2..Len(s) :
                               /\ s[j] = "}"
                               /\ \A k \in 2..(j - 1) : s[k] \notin {"{", "}"}
         THEN LET j == CHOOSE j \in 2..Len(s) :
                           /\ s[j] = "}"
                           /\ \A k \in 2..(j - 1) : s[k] \notin {"{", "}"}
              IN DropTokens(SubSeq(s, j + 1, Len(s)))
         ELSE <<Head(s)>> \o DropTokens(Tail(s))

expand_drop_unknown(t, ctx) == DropTokens(ExpandLoop(t, ctx))

\* Mutant: the placeholder is built without its braces.
RECURSIVE ExpandLoopBare(_, _)
ExpandLoopBare(res, items) ==
    IF items = <<>> THEN res
    ELSE LET next == IF Contains(res, items[1].key)
                     THEN Replace(res, items[1].key, Str(items[1].value))
                     ELSE res
         IN ExpandLoopBare(next, Tail(items))

expand_bare_placeholder(t, ctx) == ExpandLoopBare(t, ctx)

expand_filename_template(t, ctx) == ExpandLoop(t, ctx)

\* ------------------------------------------- inputs of the expander runs
KeyA == <<"a">>
KeyB == <<"b">>
Pieces == {<<"{">>, <<"}">>, <<"a">>, <<"b">>,
           <<"{", "a", "}">>, <<"{", "b", "}">>}

\* Strings made of at most n pieces, a piece being one character or a whole
\* {a} / {b} token.
RECURSIVE PieceStrings(_)
PieceStrings(n) ==
    IF n = 0 THEN {<<>>}
    ELSE LET S == PieceStrings(n - 1)
         IN S \cup {s \o p : s \in S, p \in Pieces}

Templates == PieceStrings(MaxPieces)

ExpandValues == {Val(<<>>), Val(<<"a">>), Val(<<"b">>),
                 Val(<<"{", "b", "}">>), Val(<<"{", "a", "}">>)}

Item(k, v) == [key |-> k, value |-> v]

\* Dicts over the distinct keys a, b, in either insertion order.
Contexts ==
    {<<>>}
    \cup {<<Item(k, v)>> : k \in {KeyA, KeyB}, v \in ExpandValues}
    \cup {<<Item(KeyA, v), Item(KeyB, w)>> : v \in ExpandValues, w \in ExpandValues}
    \cup {<<Item(KeyB, v), Item(KeyA, w)>> : v \in ExpandValues, w \in ExpandValues}

InitExpand ==
    /\ epc = "init"
    /\ template_str \in Templates
    /\ context \in Contexts
    /\ result = <<>>
    /\ result2 = <<>>

ExpandIdle ==
    /\ epc = "off"
    /\ template_str = <<>>
    /\ context = <<>>
    /\ result = <<>>
    /\ result2 = <<>>

ExpandOnce ==
    /\ epc = "init"
    /\ result' = expand_filename_template(template_str, context)
    /\ epc' = "once"
    /\ UNCHANGED <<template_str, context, result2, mainVars, genVars>>

ExpandAgain ==
    /\ epc = "once"
    /\ result2' = expand_filename_template(result, context)
    /\ epc' = "twice"
    /\ UNCHANGED <<template_str, context, result, mainVars, genVars>>

\* ------------------------------------------------------------- main()
NoTemplate == [present |-> FALSE, bytes |-> "none"]
NoCsv == [present |-> FALSE, wellformed |-> FALSE, header |-> <<>>, rows |-> <<>>]
NoDownload == [offered |-> FALSE, data |-> <<>>]

\* Raw text of one CSV field.
Cells == {<<>>, <<" ">>, <<"x">>, <<"y">>}
Headers == {<<KeyA, KeyB>>}
RawRows == {<<c1, c2>> : c1 \in Cells, c2 \in Cells}

RECURSIVE SeqsUpTo(_, _)
SeqsUpTo(S, n) ==
    IF n = 0 THEN {<<>>}
    ELSE LET T == SeqsUpTo(S, n - 1)
         IN T \cup {Append(t, x) : t \in T, x \in S}

\* Uploaded CSV files: a header of two columns and up to MaxRows lines, each
\* with one field per column; or a file pandas cannot parse.
CsvFiles ==
    {[present |-> TRUE, wellformed |-> TRUE, header |-> h, rows |-> r] :
        h \in Headers, r \in SeqsUpTo(RawRows, MaxRows)}
    \cup {[present |-> TRUE, wellformed |-> FALSE, header |-> <<>>, rows |-> <<>>]}

FilenameTemplates ==
    { <<"D", "_", "{", "b", "}", "_", "{", "a", "}">>,  \* Dokument_{Nachname}_{Vorname}
      <<>>, <<" ">>, <<"D">>,
      <<"{", "a", "}">>, <<" ", "{", "a", "}", " ">>,
      <<"{", "a", "}", "{", "b", "}">>,
      <<"{", "c", "}">>,
      <<"E", "i", "n", "t", "r", "a", "g", "_", "{", "a", "}">> }

\* pd.read_csv(csv_file, sep=';', dtype=str): every field is read as str,
\* except that an empty field is a missing value and is stored as NaN
\* (na_filter and keep_default_na are left at their defaults).
read_cell(raw) == IF raw = <<>> THEN NaN ELSE Val(raw)

\* The DataFrame, row by row as row.to_dict() gives it: one item per column,
\* in header order.
read_csv(csv) ==
    [r \in 1..Len(csv.rows) |->
        [c \in 1..Len(csv.header) |->
            Item(csv.header[c], read_cell(csv.rows[r][c]))]]

Whitespace == {" "}

strip_nothing(s) == s

\* str.strip(): leading and trailing whitespace removed.
RECURSIVE strip(_)
strip(s) ==
    IF s = <<>> THEN s
    ELSE IF Head(s) \in Whitespace THEN strip(Tail(s))
    ELSE IF s[Len(s)] \in Whitespace THEN strip(SubSeq(s, 1, Len(s) - 1))
    ELSE s

\* str(index) for a non-negative int.
RECURSIVE Decimal(_)
Decimal(n) ==
    IF n < 10 THEN <<ToString(n)>>
    ELSE Decimal(n \div 10) \o <<ToString(n % 10)>>

\* f"Eintrag_{index}"
Eintrag(i) == <<"E", "i", "n", "t", "r", "a", "g", "_">> \o Decimal(i)

\* f"{filename_prefix}.docx"
DocxName(prefix) == prefix \o <<".", "d", "o", "c", "x">>

\* Lines 137-141: the expanded template, or the fallback when nothing but
\* whitespace is left.
filename_prefix(i, ctx) ==
    LET expanded == expand_filename_template(filename_template, ctx)
    IN IF strip(expanded) = <<>> THEN Eintrag(i) ELSE expanded

\* Mutant: an archive keyed by name, a second entry of a name replaces the
\* first.
writestr_replacing(archive, name, bytes) ==
    IF \E k \in 1..Len(archive) : archive[k].name = name
    THEN [k \in 1..Len(archive) |->
             IF archive[k].name = name THEN [name |-> name, bytes |-> bytes]
             ELSE archive[k]]
    ELSE Append(archive, [name |-> name, bytes |-> bytes])

\* zf.writestr(name, bytes) on an archive opened in mode "a": the entry is
\* appended, also when the name is already there (zipfile only warns).
writestr(archive, name, bytes) == Append(archive, [name |-> name, bytes |-> bytes])

\* What generate_doc returns when nothing raises: the template it loaded from
\* temp_template.docx, rendered with the context.
Rendered(tmpl, ctx) == [template |-> tmpl, context |-> ctx]

MissingInput_And == ~uploaded_template.present /\ ~csv_file.present

\* not uploaded_template or not csv_file
MissingInput == ~uploaded_template.present \/ ~csv_file.present

InitMain ==
    /\ pc = "idle"
    /\ uploaded_template \in {NoTemplate, [present |-> TRUE, bytes |-> "T1"]}
    /\ csv_file \in CsvFiles \cup {NoCsv}
    /\ filename_template \in FilenameTemplates
    /\ data = <<>>
    /\ index = 0
    /\ zip_created = FALSE
    /\ zf = <<>>
    /\ ui = <<>>
    /\ download = NoDownload
    /\ parsed = FALSE
    /\ renders = 0
    /\ raisedAt = -1
    /\ escaped = FALSE
    /\ main_temp = "none"

MainIdle ==
    /\ pc = "off"
    /\ uploaded_template = NoTemplate
    /\ csv_file = NoCsv
    /\ filename_template = <<>>
    /\ data = <<>>
    /\ index = 0
    /\ zip_created = FALSE
    /\ zf = <<>>
    /\ ui = <<>>
    /\ download = NoDownload
    /\ parsed = FALSE
    /\ renders = 0
    /\ raisedAt = -1
    /\ escaped = FALSE
    /\ main_temp = "none"

\* Lines 114-130: the button is clicked; the inputs are checked, the CSV is
\* read and the archive is opened.
Generate ==
    /\ pc = "idle"
    /\ IF MissingInput
       THEN /\ ui' = Append(ui, "warning")
            /\ pc' = "failed"
            /\ UNCHANGED <<parsed, data, zip_created>>
       ELSE IF ~csv_file.wellformed
       THEN /\ parsed' = TRUE
            /\ ui' = Append(ui, "error")
            /\ pc' = "failed"
            /\ UNCHANGED <<data, zip_created>>
       ELSE /\ parsed' = TRUE
            /\ data' = read_csv(csv_file)
            /\ zip_created' = TRUE
            /\ pc' = "loop"
            /\ UNCHANGED ui
    /\ UNCHANGED <<uploaded_template, csv_file, filename_template, index, zf,
                   download, renders, raisedAt, escaped, main_temp,
                   expandVars, genVars>>

\* Lines 132-149: one iteration of the loop in which generate_doc returns.
LoopBody ==
    /\ pc = "loop"
    /\ index < Len(data)
    /\ LET ctx == data[index + 1]
           prefix == filename_prefix(index, ctx)
           docx_bytes == Rendered(uploaded_template.bytes, ctx)
       IN zf' = writestr(zf, DocxName(prefix), docx_bytes)
    /\ main_temp' = uploaded_template.bytes
    /\ renders' = renders + 1
    /\ index' = index + 1
    /\ UNCHANGED <<pc, uploaded_template, csv_file, filename_template, data,
                   zip_created, ui, download, parsed, raisedAt, escaped,
                   expandVars, genVars>>

\* Mutant: the exception of one row is caught and the loop goes on.
LoopBodyRaises_Isolated ==
    /\ pc = "loop"
    /\ index < Len(data)
    /\ main_temp' = uploaded_template.bytes
    /\ renders' = renders + 1
    /\ raisedAt' = index
    /\ index' = index + 1
    /\ UNCHANGED <<pc, uploaded_template, csv_file, filename_template, data,
                   zip_created, zf, ui, download, parsed, escaped,
                   expandVars, genVars>>

\* Lines 132-144, 130: generate_doc raises in doc.render (after it wrote the
\* temp file); nothing catches it, the with block closes the archive and the
\* exception leaves main().
LoopBodyRaises ==
    /\ pc = "loop"
    /\ index < Len(data)
    /\ main_temp' = uploaded_template.bytes
    /\ renders' = renders + 1
    /\ raisedAt' = index
    /\ escaped' = TRUE
    /\ pc' = "failed"
    /\ UNCHANGED <<uploaded_template, csv_file, filename_template, data, index,
                   zip_created, zf, ui, download, parsed, expandVars, genVars>>

\* Lines 157-163: the loop is over, the archive is closed and offered.
Finish ==
    /\ pc = "loop"
    /\ index = Len(data)
    /\ ui' = Append(ui, "success")
    /\ download' = [offered |-> TRUE, data |-> zf]
    /\ pc' = "done"
    /\ UNCHANGED <<uploaded_template, csv_file, filename_template, data, index,
                   zip_created, zf, parsed, renders, raisedAt, escaped,
                   main_temp, expandVars, genVars>>

\* ------------------------------------------------------- generate_doc
Invocations == {1, 2}
TemplateBytes == {"T1", "T2"}

InitGen ==
    /\ gpc = [p \in Invocations |-> "idle"]
    /\ template_bytes = [p \in Invocations |-> "none"]
    /\ temp_template = "none"
    /\ doc = [p \in Invocations |-> "none"]
    /\ alone = [p \in Invocations |-> TRUE]
    /\ returned = [p \in Invocations |-> "none"]

Running(p) == gpc[p] \in {"open", "write", "load", "save"}

\* generate_doc(template_bytes, context) is entered.
Call(p) ==
    /\ gpc[p] \in {"idle", "raised"}
    /\ \E b \in TemplateBytes : template_bytes' = [template_bytes EXCEPT ![p] = b]
    /\ gpc' = [gpc EXCEPT ![p] = "open"]
    /\ doc' = [doc EXCEPT ![p] = "none"]
    /\ alone' = [q \in Invocations |->
                    IF q = p THEN \A r \in Invocations \ {p} : ~Running(r)
                    ELSE IF Running(q) THEN FALSE ELSE alone[q]]
    /\ UNCHANGED <<temp_template, returned, mainVars, expandVars>>

\* Line 15: open("temp_template.docx", "wb") truncates the file.
Open(p) ==
    /\ gpc[p] = "open"
    /\ temp_template' = "empty"
    /\ gpc' = [gpc EXCEPT ![p] = "write"]
    /\ UNCHANGED <<template_bytes, doc, alone, returned, mainVars, expandVars>>

\* Mutant: the file is not closed (its buffer not flushed) before it is read.
WriteClose_Unflushed(p) ==
    /\ gpc[p] = "write"
    /\ gpc' = [gpc EXCEPT ![p] = "load"]
    /\ UNCHANGED <<template_bytes, temp_template, doc, alone, returned,
                   mainVars, expandVars>>

\* Line 16 and the end of the with block: the bytes reach the file.
WriteClose(p) ==
    /\ gpc[p] = "write"
    /\ temp_template' = template_bytes[p]
    /\ gpc' = [gpc EXCEPT ![p] = "load"]
    /\ UNCHANGED <<template_bytes, doc, alone, returned, mainVars, expandVars>>

\* Lines 18-19: DocxTemplate reads temp_template.docx and renders; a
\* truncated file is no docx and the call raises.
LoadRender(p) ==
    /\ gpc[p] = "load"
    /\ IF temp_template = "empty"
       THEN /\ gpc' = [gpc EXCEPT ![p] = "raised"]
            /\ UNCHANGED doc
       ELSE /\ doc' = [doc EXCEPT ![p] = temp_template]
            /\ gpc' = [gpc EXCEPT ![p] = "save"]
    /\ UNCHANGED <<template_bytes, temp_template, alone, returned, mainVars,
                   expandVars>>

\* Lines 21-29: the rendered document is saved, read back and returned.
SaveReturn(p) ==
    /\ gpc[p] = "save"
    /\ returned' = [returned EXCEPT ![p] = doc[p]]
    /\ gpc' = [gpc EXCEPT ![p] = "idle"]
    /\ UNCHANGED <<template_bytes, temp_template, doc, alone, mainVars,
                   expandVars>>

GenIdle ==
    /\ gpc = [p \in Invocations |-> "off"]
    /\ template_bytes = [p \in Invocations |-> "none"]
    /\ temp_template = "none"
    /\ doc = [p \in Invocations |-> "none"]
    /\ alone = [p \in Invocations |-> TRUE]
    /\ returned = [p \in Invocations |-> "none"]

\* -------------------------------------------------------- specifications
Init == InitMain /\ ExpandIdle /\ GenIdle
Next == Generate \/ LoopBody \/ LoopBodyRaises \/ Finish
Spec == Init /\ [][Next]_vars

InitE == MainIdle /\ InitExpand /\ GenIdle
NextE == ExpandOnce \/ ExpandAgain
SpecExpand == InitE /\ [][NextE]_vars

InitG == MainIdle /\ ExpandIdle /\ InitGen
NextG ==
    \E p \in Invocations :
        Call(p) \/ Open(p) \/ WriteClose(p) \/ LoadRender(p) \/ SaveReturn(p)
SpecGen == InitG /\ [][NextG]_vars

\* ------------------------------------------------------------ properties
EndsWith(s, suffix) ==
    /\ Len(s) >= Len(suffix)
    /\ SubSeq(s, Len(s) - Len(suffix) + 1, Len(s)) = suffix

DotDocx == <<".", "d", "o", "c", "x">>

AllWhitespace(s) == \A i \in 1..Len(s) : s[i] = " "

Reverse(s) == [i \in 1..Len(s) |-> s[Len(s) + 1 - i]]

Keys(ctx) == {ctx[i].key : i \in 1..Len(ctx)}

BraceFree(s) == \A i \in 1..Len(s) : s[i] \notin {"{", "}"}

\* Number of places where tok occurs in s.
Count(s, tok) ==
    Cardinality({i \in 1..(Len(s) + 1 - Len(tok)) :
                    SubSeq(s, i, i + Len(tok) - 1) = tok})

\* Names of the {name} tokens of s.
TokenNames(s) ==
    {nm \in {SubSeq(s, i, j) : i \in 1..(Len(s) + 1), j \in 0..Len(s)} :
        BraceFree(nm) /\ Contains(s, Placeholder(nm))}

\* C1: with both inputs present and no render failure the batch reaches Done
\* with exactly n .docx entries for the n rows of the source, all offered for
\* download; during the loop the number of entries written equals the number
\* of rows processed, and the loop can always go on to its next row or end.
C1_EntriesEqualRows ==
    /\ pc = "loop" =>
          /\ zip_created
          /\ Len(zf) = index
          /\ index <= Len(csv_file.rows)
          /\ ENABLED (LoopBody \/ Finish)
    /\ pc = "done" =>
          /\ raisedAt = -1
          /\ Len(zf) = Len(csv_file.rows)
          /\ \A k \in 1..Len(zf) : EndsWith(zf[k].name, DotDocx)
          /\ download = [offered |-> TRUE, data |-> zf]

C1_Witness ==
    /\ pc = "done"
    /\ Len(csv_file.rows) = 2
    /\ Len(zf) = 2
    /\ zf[1].name = zf[2].name

\* C2: when the batch completes, no two archive entries have the same name.
C2_NamesPairwiseDifferent ==
    pc = "done" =>
        \A j \in 1..Len(zf) : \A k \in 1..Len(zf) :
            j # k => zf[j].name # zf[k].name

\* C3: when the template or the source is absent at the click, the batch is
\* Failed with exactly one warning shown; read_csv was not called, no row was
\* rendered, no archive was created or offered, no exception left main().
C3_MissingInputFails ==
    (pc # "idle" /\ (~uploaded_template.present \/ ~csv_file.present)) =>
        /\ pc = "failed"
        /\ ui = <<"warning">>
        /\ ~parsed
        /\ data = <<>>
        /\ renders = 0
        /\ ~zip_created
        /\ zf = <<>>
        /\ download = NoDownload
        /\ ~escaped

C3_Witness ==
    /\ pc = "failed"
    /\ uploaded_template.present
    /\ ~csv_file.present
    /\ ui = <<"warning">>

\* C4: once rendering has raised for row i the batch is Failed and stays so
\* (no step is possible any more): rows after i were not rendered, the
\* exception left main(), no success is shown and no archive is offered, not
\* even the one holding the entries of rows 0..i-1.
C4_RenderFailureAbortsBatch ==
    raisedAt # -1 =>
        /\ pc = "failed"
        /\ escaped
        /\ renders = raisedAt + 1
        /\ index = raisedAt
        /\ Len(zf) = raisedAt
        /\ ui = <<>>
        /\ download = NoDownload
        /\ ~ENABLED Next

C4_Witness ==
    /\ raisedAt = 1
    /\ Len(data) = 2
    /\ Len(zf) = 1
    /\ pc = "failed"

EntryNameFor(i, expanded) ==
    IF AllWhitespace(expanded)
    THEN <<"E", "i", "n", "t", "r", "a", "g", "_", ToString(i)>> \o DotDocx
    ELSE expanded \o DotDocx

\* C6: the entry written for the row at position i is named Eintrag_i.docx
\* when its expanded filename is empty or only whitespace, and
\* <expanded filename>.docx otherwise.
C6_EntryNames ==
    \A k \in 1..Len(zf) :
        zf[k].name =
            EntryNameFor(k - 1, expand_filename_template(filename_template, data[k]))

C6_Witness ==
    /\ pc = "done"
    /\ Len(zf) = 2
    /\ LET e1 == expand_filename_template(filename_template, data[1])
           e2 == expand_filename_template(filename_template, data[2])
       IN /\ ~AllWhitespace(e1)
          /\ AllWhitespace(e2)
          /\ e2 # <<>>
          /\ zf[2].name = <<"E", "i", "n", "t", "r", "a", "g", "_", "1">> \o DotDocx

\* C7: the result of the expansion is the same when the context's keys are
\* iterated in the other order.
C7_OrderIndependent ==
    epc # "init" =>
        result = expand_filename_template(template_str, Reverse(context))

\* No token of t is named like the value of another key, and no value holds
\* the placeholder of a key: the claim's precondition in each of its readings.
C8_Precondition(t, ctx) ==
    /\ \A nm \in TokenNames(t) : \A i \in 1..Len(ctx) :
          ctx[i].key # nm => Str(ctx[i].value) # nm
    /\ \A i \in 1..Len(ctx) : \A j \in 1..Len(ctx) :
          ~Contains(Str(ctx[i].value), Placeholder(ctx[j].key))

\* C8 as stated: if the template contains no token whose name equals another
\* key's value, expanding the result again gives the result.
C8_IdempotentAsClaimed ==
    (epc = "twice" /\ C8_Precondition(template_str, context)) =>
        result2 = result

\* C8 as amended: expanding the result again gives the result whenever the
\* result contains no {key} placeholder of a key of the context.
C8_IdempotentOnceNoTokenMatches ==
    (epc = "twice" /\ \A i \in 1..Len(context) :
                         ~Contains(result, Placeholder(context[i].key))) =>
        result2 = result

C8_Witness ==
    /\ epc = "twice"
    /\ Len(context) = 2
    /\ result # template_str
    /\ \A i \in 1..Len(context) : ~Contains(result, Placeholder(context[i].key))
    /\ \E i \in 1..Len(context) : Contains(result, context[i].key)
    /\ result2 = result

\* The row dict the claim describes: every field as the str it is in the file.
RawContext(r) ==
    [c \in 1..Len(csv_file.header) |->
        Item(csv_file.header[c], Val(csv_file.rows[r][c]))]

\* C9: every column is a key of every row's context, an empty field has the
\* empty string as its value, and the filename of a written row is expanded
\* with the empty string for it.
C9_MissingCellIsEmptyString ==
    pc \in {"loop", "done"} =>
        \A r \in 1..Len(data) :
            /\ Len(data[r]) = Len(csv_file.header)
            /\ \A c \in 1..Len(csv_file.header) :
                  /\ data[r][c].key = csv_file.header[c]
                  /\ csv_file.rows[r][c] = <<>> => Str(data[r][c].value) = <<>>
            /\ r <= Len(zf) =>
                  zf[r].name =
                      EntryNameFor(r - 1,
                          expand_filename_template(filename_template, RawContext(r)))

\* C10: an invocation of generate_doc during which no other invocation runs
\* loads from temp_template.docx the bytes it was given and does not raise
\* on the file (the hazard, an invocation that rendered from the other's
\* bytes, is the witness).
C10_AloneLoadsOwnTemplate ==
    \A p \in Invocations :
        alone[p] =>
            /\ gpc[p] # "raised"
            /\ gpc[p] = "save" => doc[p] = template_bytes[p]
            /\ gpc[p] = "load" => temp_template = template_bytes[p]

C10_Witness ==
    \E p \in Invocations : \E q \in Invocations \ {p} :
        /\ gpc[p] = "save"
        /\ template_bytes[p] # template_bytes[q]
        /\ doc[p] = template_bytes[q]

====
